---- MODULE Spec2Model ----
(***************************************************************************)
(* Model of the salesapi process lifecycle (05-configuration/cmd/salesapi/ *)
(* main.go) and of the Products HTTP handlers (handlers package).          *)
(*                                                                         *)
(* Library behaviour is modelled by its documented contract:               *)
(*  - a Go select over several ready channels picks any one of them;       *)
(*  - os/signal never blocks sending to a Notify channel: a signal that    *)
(*    finds the channel full is dropped; before Notify is called SIGINT    *)
(*    and SIGTERM terminate the process;                                   *)
(*  - http.Server.Shutdown closes the listeners (ListenAndServe returns    *)
(*    ErrServerClosed), waits for the connections to become idle and       *)
(*    returns the listener-close error, or returns the context's error     *)
(*    when the context expires before the shutdown is complete;            *)
(*  - log.Fatalf logs and calls os.Exit(1): deferred calls do not run.     *)
(***************************************************************************)
EXTENDS Integers, Sequences, FiniteSets, TLC

\* ---------------------------------------------------------------- bounds
MaxSignals == 3     \* SIGINT/SIGTERM deliveries by the environment
MaxInflight == 2    \* requests in flight at the listener

\* ------------------------------------------------------ program constants
ErrChanCap == 1     \* make(chan error, 1)
SigChanCap == 1     \* make(chan os.Signal, 1)

VARIABLES
    mainPc,         \* position of main
    log,            \* messages printed through package log, in order
    dbOpen,         \* db connected and not yet closed
    lsPc,           \* position of the goroutine running ListenAndServe
    lsErr,          \* value returned by ListenAndServe
    served,         \* the listener has bound and started serving
    serverErrors,   \* chan error, capacity 1
    osSignals,      \* chan os.Signal, capacity 1
    notifyOn,       \* signal.Notify has registered osSignals
    sigDelivered,   \* signals delivered to the process so far
    sigPlaced,      \* values placed into osSignals so far
    errSends,       \* sends on serverErrors so far
    recvErr,        \* receives from serverErrors by main
    recvSig,        \* receives from osSignals by main
    timerStarted,   \* context.WithTimeout has been called
    deadlineFired,  \* the 15 second deadline has elapsed
    ctxCancelled,   \* cancel() has run
    inShutdown,     \* server.inShutdown
    sdState,        \* progress of server.Shutdown
    lnErr,          \* error of closing the listeners in Shutdown
    shutdownErr,    \* value returned by server.Shutdown
    shutdownCalls,  \* calls of server.Shutdown
    closeCalls,     \* calls of server.Close
    inflight,       \* requests being handled
    hPhase,         \* request: "idle", "returned" (handler returned), "done"
    hName,          \* handler that served the request
    hIn,            \* what the collaborators did during the request
    hCalls,         \* calls made by the handler, in order
    hErr,           \* error returned by the handler
    hWrites,        \* responses written for the request
    hStatus,        \* status passed to web.Respond by the handler
    hNoBody,        \* the handler passed a nil value to web.Respond
    hClass          \* status the adapter classified the returned error with

mainVars == <<mainPc, log, dbOpen, recvErr, recvSig, timerStarted,
              ctxCancelled, shutdownErr, shutdownCalls, closeCalls>>
lsVars == <<lsPc, lsErr, served, errSends>>
chanVars == <<serverErrors, osSignals>>
sigVars == <<notifyOn, sigDelivered, sigPlaced>>
srvVars == <<deadlineFired, inShutdown, sdState, lnErr, inflight>>
coordVars == <<mainVars, lsVars, chanVars, sigVars, srvVars>>
hVars == <<hPhase, hName, hIn, hCalls, hErr, hWrites, hStatus, hNoBody, hClass>>
vars == <<coordVars, hVars>>

Signals == {"SIGINT", "SIGTERM"}

Last(s) == s[Len(s)]

\* The process is running: main has neither returned nor called os.Exit,
\* and no unhandled signal has terminated it.
Alive == mainPc \notin {"exited", "fatal", "killed"}

\* ------------------------------------------------------------- error values
\* An error value: its root cause, the context messages wrapped around it
\* (errors.Wrap) and the status attached to it (0: none).
NoErr == [cause |-> "nil", msgs |-> << >>, status |-> 0]

NewErr(c) == [cause |-> c, msgs |-> << >>, status |-> 0]

NoInput == [decodeOk |-> TRUE, claimsOk |-> TRUE, dom |-> NoErr, ro |-> "ok"]

InitHandlers ==
    /\ hPhase = "idle"
    /\ hName = "none"
    /\ hIn = NoInput
    /\ hCalls = << >>
    /\ hErr = NoErr
    /\ hWrites = 0
    /\ hStatus = 0
    /\ hNoBody = FALSE
    /\ hClass = 0

Init ==
    /\ InitHandlers
    /\ mainPc = "config"
    /\ log = << >>
    /\ dbOpen = FALSE
    /\ lsPc = "none"
    /\ lsErr = "none"
    /\ served = FALSE
    /\ serverErrors = << >>
    /\ osSignals = << >>
    /\ notifyOn = FALSE
    /\ sigDelivered = 0
    /\ sigPlaced = 0
    /\ errSends = 0
    /\ recvErr = 0
    /\ recvSig = 0
    /\ timerStarted = FALSE
    /\ deadlineFired = FALSE
    /\ ctxCancelled = FALSE
    /\ inShutdown = FALSE
    /\ sdState = "none"
    /\ lnErr = "nil"
    /\ shutdownErr = "none"
    /\ shutdownCalls = 0
    /\ closeCalls = 0
    /\ inflight = 0

\* log.Fatalf(msg): print, then os.Exit(1).
Fatalf(msg) ==
    /\ log' = Append(log, msg)
    /\ mainPc' = "fatal"

\* main.go 43-67: flags and configuration.
MainConfig(outcome) ==
    /\ mainPc = "config"
    /\ CASE outcome = "parseErr" -> Fatalf("error: parsing config")
         [] outcome = "configOnly" -> mainPc' = "exited" /\ log' = log
         [] outcome = "configOnlyErr" -> Fatalf("error: encoding config as json")
         [] OTHER -> mainPc' = "connect" /\ log' = log
    /\ UNCHANGED <<dbOpen, recvErr, recvSig, timerStarted, ctxCancelled,
                   shutdownErr, shutdownCalls, closeCalls>>
    /\ UNCHANGED <<lsVars, chanVars, sigVars, srvVars>>
    /\ UNCHANGED hVars

\* main.go 69-94: connect to the database, defer db.Close().
MainConnectDB(ok) ==
    /\ mainPc = "connect"
    /\ IF ok
         THEN mainPc' = "spawn" /\ dbOpen' = TRUE /\ log' = log
         ELSE Fatalf("error: connecting to db") /\ dbOpen' = dbOpen
    /\ UNCHANGED <<recvErr, recvSig, timerStarted, ctxCancelled,
                   shutdownErr, shutdownCalls, closeCalls>>
    /\ UNCHANGED <<lsVars, chanVars, sigVars, srvVars>>
    /\ UNCHANGED hVars

\* main.go 96-106: build the server, make serverErrors, start the goroutine.
MainSpawn ==
    /\ mainPc = "spawn"
    /\ mainPc' = "notify"
    /\ lsPc' = "spawned"
    /\ UNCHANGED <<log, dbOpen, recvErr, recvSig, timerStarted, ctxCancelled,
                   shutdownErr, shutdownCalls, closeCalls>>
    /\ UNCHANGED <<lsErr, served, errSends, chanVars, sigVars, srvVars>>
    /\ UNCHANGED hVars

\* main.go 108-109: make osSignals and register it for SIGINT and SIGTERM.
MainNotify ==
    /\ mainPc = "notify"
    /\ mainPc' = "logStartup"
    /\ notifyOn' = TRUE
    /\ UNCHANGED <<log, dbOpen, recvErr, recvSig, timerStarted, ctxCancelled,
                   shutdownErr, shutdownCalls, closeCalls>>
    /\ UNCHANGED <<lsVars, chanVars, sigDelivered, sigPlaced, srvVars>>
    /\ UNCHANGED hVars

\* Variant of MainLogStartup: the grace context is created before the select.
MainLogStartup_earlyTimer ==
    /\ mainPc = "logStartup"
    /\ mainPc' = "select"
    /\ log' = Append(log, "startup complete")
    /\ timerStarted' = TRUE
    /\ UNCHANGED <<dbOpen, recvErr, recvSig, ctxCancelled,
                   shutdownErr, shutdownCalls, closeCalls>>
    /\ UNCHANGED <<lsVars, chanVars, sigVars, srvVars>>
    /\ UNCHANGED hVars

\* main.go 111.
MainLogStartup ==
    /\ mainPc = "logStartup"
    /\ mainPc' = "select"
    /\ log' = Append(log, "startup complete")
    /\ UNCHANGED <<dbOpen, recvErr, recvSig, timerStarted, ctxCancelled,
                   shutdownErr, shutdownCalls, closeCalls>>
    /\ UNCHANGED <<lsVars, chanVars, sigVars, srvVars>>
    /\ UNCHANGED hVars

\* Variant of MainSelectErr: the error is logged with log.Printf and main
\* goes on into the shutdown sequence.
MainSelectErr_drain ==
    /\ mainPc = "select"
    /\ Len(serverErrors) > 0
    /\ serverErrors' = Tail(serverErrors)
    /\ recvErr' = recvErr + 1
    /\ log' = Append(log, "error: listening and serving")
    /\ mainPc' = "withTimeout"
    /\ UNCHANGED <<dbOpen, recvSig, timerStarted, ctxCancelled,
                   shutdownErr, shutdownCalls, closeCalls>>
    /\ UNCHANGED <<lsVars, osSignals, sigVars, srvVars>>
    /\ UNCHANGED hVars

\* main.go 113-115: the select takes the serverErrors case.
MainSelectErr ==
    /\ mainPc = "select"
    /\ Len(serverErrors) > 0
    /\ serverErrors' = Tail(serverErrors)
    /\ recvErr' = recvErr + 1
    /\ Fatalf("error: listening and serving")
    /\ UNCHANGED <<dbOpen, recvSig, timerStarted, ctxCancelled,
                   shutdownErr, shutdownCalls, closeCalls>>
    /\ UNCHANGED <<lsVars, osSignals, sigVars, srvVars>>
    /\ UNCHANGED hVars

\* main.go 117-118: the select takes the osSignals case.
MainSelectSig ==
    /\ mainPc = "select"
    /\ Len(osSignals) > 0
    /\ osSignals' = Tail(osSignals)
    /\ recvSig' = recvSig + 1
    /\ log' = Append(log, "caught signal, shutting down")
    /\ mainPc' = "withTimeout"
    /\ UNCHANGED <<dbOpen, recvErr, timerStarted, ctxCancelled,
                   shutdownErr, shutdownCalls, closeCalls>>
    /\ UNCHANGED <<lsVars, serverErrors, sigVars, srvVars>>
    /\ UNCHANGED hVars

\* main.go 120-123: context.WithTimeout(..., 15s), defer cancel().
MainWithTimeout ==
    /\ mainPc = "withTimeout"
    /\ timerStarted' = TRUE
    /\ mainPc' = "callShutdown"
    /\ UNCHANGED <<log, dbOpen, recvErr, recvSig, ctxCancelled,
                   shutdownErr, shutdownCalls, closeCalls>>
    /\ UNCHANGED <<lsVars, chanVars, sigVars, srvVars>>
    /\ UNCHANGED hVars

\* main.go 125: server.Shutdown(ctx) is entered. The listeners are closed, so
\* a serving ListenAndServe returns ErrServerClosed; then Shutdown waits for
\* the in-flight requests or for the context.
MainCallShutdown ==
    /\ mainPc = "callShutdown"
    /\ mainPc' = "inShutdown"
    /\ shutdownCalls' = shutdownCalls + 1
    /\ inShutdown' = TRUE
    /\ IF lsPc = "serving"
         THEN /\ lsPc' = "returned"
              /\ lsErr' = "ErrServerClosed"
              /\ \E e \in {"nil", "lnCloseErr"} : lnErr' = e
         ELSE UNCHANGED <<lsPc, lsErr, lnErr>>
    /\ sdState' = IF deadlineFired THEN "expired"
                  ELSE IF inflight = 0 THEN "complete" ELSE "waiting"
    /\ UNCHANGED <<log, dbOpen, recvErr, recvSig, timerStarted, ctxCancelled,
                   shutdownErr, closeCalls>>
    /\ UNCHANGED <<served, errSends, chanVars, sigVars, deadlineFired, inflight>>
    /\ UNCHANGED hVars

\* Variant of MainShutdownReturn: server.Close is called whatever Shutdown
\* returned.
MainShutdownReturn_alwaysClose ==
    /\ mainPc = "inShutdown"
    /\ sdState \in {"complete", "expired"}
    /\ shutdownErr' = IF sdState = "expired" THEN "DeadlineExceeded" ELSE lnErr
    /\ mainPc' = "callClose"
    /\ log' = IF shutdownErr' = "nil" THEN log
              ELSE Append(log, "error: gracefully shutting down server")
    /\ UNCHANGED <<dbOpen, recvErr, recvSig, timerStarted, ctxCancelled,
                   shutdownCalls, closeCalls>>
    /\ UNCHANGED <<lsVars, chanVars, sigVars, srvVars>>
    /\ UNCHANGED hVars

\* Variant of MainShutdownReturn: the error is logged and server.Close is
\* not called.
MainShutdownReturn_skipClose ==
    /\ mainPc = "inShutdown"
    /\ sdState \in {"complete", "expired"}
    /\ shutdownErr' = IF sdState = "expired" THEN "DeadlineExceeded" ELSE lnErr
    /\ mainPc' = "logDone"
    /\ log' = IF shutdownErr' = "nil" THEN log
              ELSE Append(log, "error: gracefully shutting down server")
    /\ UNCHANGED <<dbOpen, recvErr, recvSig, timerStarted, ctxCancelled,
                   shutdownCalls, closeCalls>>
    /\ UNCHANGED <<lsVars, chanVars, sigVars, srvVars>>
    /\ UNCHANGED hVars

\* Variant of MainShutdownReturn: Shutdown is given a context without a
\* deadline and returns only when the requests have completed.
MainShutdownReturn_noDeadline ==
    /\ mainPc = "inShutdown"
    /\ sdState = "complete"
    /\ shutdownErr' = lnErr
    /\ IF shutdownErr' = "nil"
         THEN mainPc' = "logDone" /\ log' = log
         ELSE /\ mainPc' = "callClose"
              /\ log' = Append(log, "error: gracefully shutting down server")
    /\ UNCHANGED <<dbOpen, recvErr, recvSig, timerStarted, ctxCancelled,
                   shutdownCalls, closeCalls>>
    /\ UNCHANGED <<lsVars, chanVars, sigVars, srvVars>>
    /\ UNCHANGED hVars

\* main.go 125-126: server.Shutdown returns; a non-nil error is logged.
MainShutdownReturn ==
    /\ mainPc = "inShutdown"
    /\ sdState \in {"complete", "expired"}
    /\ shutdownErr' = IF sdState = "expired" THEN "DeadlineExceeded" ELSE lnErr
    /\ IF shutdownErr' = "nil"
         THEN mainPc' = "logDone" /\ log' = log
         ELSE /\ mainPc' = "callClose"
              /\ log' = Append(log, "error: gracefully shutting down server")
    /\ UNCHANGED <<dbOpen, recvErr, recvSig, timerStarted, ctxCancelled,
                   shutdownCalls, closeCalls>>
    /\ UNCHANGED <<lsVars, chanVars, sigVars, srvVars>>
    /\ UNCHANGED hVars

\* Variant of MainClose: an error of server.Close is fatal.
MainClose_fatal(closeErr) ==
    /\ mainPc = "callClose"
    /\ closeCalls' = closeCalls + 1
    /\ inflight' = 0
    /\ IF closeErr
         THEN Fatalf("error: closing server")
         ELSE log' = log /\ mainPc' = "logDone"
    /\ UNCHANGED <<dbOpen, recvErr, recvSig, timerStarted, ctxCancelled,
                   shutdownErr, shutdownCalls>>
    /\ UNCHANGED <<lsVars, chanVars, sigVars, deadlineFired, inShutdown,
                   sdState, lnErr>>
    /\ UNCHANGED hVars

\* main.go 127-129: server.Close(); a non-nil error is logged.
MainClose(closeErr) ==
    /\ mainPc = "callClose"
    /\ closeCalls' = closeCalls + 1
    /\ inflight' = 0
    /\ log' = IF closeErr THEN Append(log, "error: closing server") ELSE log
    /\ mainPc' = "logDone"
    /\ UNCHANGED <<dbOpen, recvErr, recvSig, timerStarted, ctxCancelled,
                   shutdownErr, shutdownCalls>>
    /\ UNCHANGED <<lsVars, chanVars, sigVars, deadlineFired, inShutdown,
                   sdState, lnErr>>
    /\ UNCHANGED hVars

\* Variant of MainLogDone: main waits for the listener's value before it
\* logs "done".
MainLogDone_drainErrors ==
    /\ mainPc = "logDone"
    /\ Len(serverErrors) > 0
    /\ serverErrors' = Tail(serverErrors)
    /\ recvErr' = recvErr + 1
    /\ log' = Append(log, "done")
    /\ mainPc' = "return"
    /\ UNCHANGED <<dbOpen, recvSig, timerStarted, ctxCancelled,
                   shutdownErr, shutdownCalls, closeCalls>>
    /\ UNCHANGED <<lsVars, osSignals, sigVars, srvVars>>
    /\ UNCHANGED hVars

\* Variant of MainLogDone: "done" is logged only after a clean shutdown.
MainLogDone_onlyClean ==
    /\ mainPc = "logDone"
    /\ log' = IF closeCalls = 0 THEN Append(log, "done") ELSE log
    /\ mainPc' = "return"
    /\ UNCHANGED <<dbOpen, recvErr, recvSig, timerStarted, ctxCancelled,
                   shutdownErr, shutdownCalls, closeCalls>>
    /\ UNCHANGED <<lsVars, chanVars, sigVars, srvVars>>
    /\ UNCHANGED hVars

\* main.go 133.
MainLogDone ==
    /\ mainPc = "logDone"
    /\ log' = Append(log, "done")
    /\ mainPc' = "return"
    /\ UNCHANGED <<dbOpen, recvErr, recvSig, timerStarted, ctxCancelled,
                   shutdownErr, shutdownCalls, closeCalls>>
    /\ UNCHANGED <<lsVars, chanVars, sigVars, srvVars>>
    /\ UNCHANGED hVars

\* main.go 134: main returns; the deferred cancel() and db.Close() run and
\* the process exits.
MainReturn ==
    /\ mainPc = "return"
    /\ mainPc' = "exited"
    /\ ctxCancelled' = timerStarted
    /\ dbOpen' = FALSE
    /\ UNCHANGED <<log, recvErr, recvSig, timerStarted,
                   shutdownErr, shutdownCalls, closeCalls>>
    /\ UNCHANGED <<lsVars, chanVars, sigVars, srvVars>>
    /\ UNCHANGED hVars

\* main.go 105: the goroutine calls server.ListenAndServe(), which binds the
\* address and serves, or returns at once (bind failure, server shut down).
ListenerListen(bindOk) ==
    /\ Alive
    /\ lsPc = "spawned"
    /\ IF inShutdown
         THEN lsPc' = "returned" /\ lsErr' = "ErrServerClosed" /\ served' = served
         ELSE IF bindOk
           THEN lsPc' = "serving" /\ lsErr' = lsErr /\ served' = TRUE
           ELSE lsPc' = "returned" /\ lsErr' = "bindErr" /\ served' = served
    /\ UNCHANGED <<errSends, mainVars, chanVars, sigVars, srvVars>>
    /\ UNCHANGED hVars

\* main.go 105: ListenAndServe returns a fatal accept error while serving.
ListenerFail ==
    /\ Alive
    /\ lsPc = "serving"
    /\ lsPc' = "returned"
    /\ lsErr' = "serveErr"
    /\ UNCHANGED <<served, errSends, mainVars, chanVars, sigVars, srvVars>>
    /\ UNCHANGED hVars

\* Variant of ListenerSend: the goroutine calls ListenAndServe in a loop, and
\* a closed server returns again at once.
ListenerSend_loop ==
    /\ Alive
    /\ lsPc = "returned"
    /\ Len(serverErrors) < ErrChanCap
    /\ serverErrors' = Append(serverErrors, lsErr)
    /\ errSends' = errSends + 1
    /\ lsPc' = "returned"
    /\ UNCHANGED <<lsErr, served, mainVars, osSignals, sigVars, srvVars>>
    /\ UNCHANGED hVars

\* main.go 105: the goroutine sends the returned value on serverErrors and ends.
ListenerSend ==
    /\ Alive
    /\ lsPc = "returned"
    /\ Len(serverErrors) < ErrChanCap
    /\ serverErrors' = Append(serverErrors, lsErr)
    /\ errSends' = errSends + 1
    /\ lsPc' = "done"
    /\ UNCHANGED <<lsErr, served, mainVars, osSignals, sigVars, srvVars>>
    /\ UNCHANGED hVars

\* Variant of SignalDelivered: a signal that arrives while main is draining
\* cancels the grace context.
SignalDelivered_shorten(sig) ==
    /\ Alive
    /\ sigDelivered < MaxSignals
    /\ sigDelivered' = sigDelivered + 1
    /\ IF ~notifyOn
         THEN /\ mainPc' = "killed"
              /\ UNCHANGED <<osSignals, sigPlaced>>
         ELSE /\ mainPc' = mainPc
              /\ IF Len(osSignals) < SigChanCap
                   THEN /\ osSignals' = Append(osSignals, sig)
                        /\ sigPlaced' = sigPlaced + 1
                   ELSE UNCHANGED <<osSignals, sigPlaced>>
    /\ IF recvSig >= 1 /\ timerStarted
         THEN /\ deadlineFired' = TRUE
              /\ sdState' = IF sdState = "waiting" THEN "expired" ELSE sdState
         ELSE UNCHANGED <<deadlineFired, sdState>>
    /\ UNCHANGED <<log, dbOpen, recvErr, recvSig, timerStarted, ctxCancelled,
                   shutdownErr, shutdownCalls, closeCalls>>
    /\ UNCHANGED <<lsVars, serverErrors, notifyOn, inShutdown, lnErr, inflight>>
    /\ UNCHANGED hVars

\* Variant of SignalDelivered: the signal is queued even when the channel
\* already holds one.
SignalDelivered_noDrop(sig) ==
    /\ Alive
    /\ sigDelivered < MaxSignals
    /\ sigDelivered' = sigDelivered + 1
    /\ IF ~notifyOn
         THEN /\ mainPc' = "killed"
              /\ UNCHANGED <<osSignals, sigPlaced>>
         ELSE /\ mainPc' = mainPc
              /\ osSignals' = Append(osSignals, sig)
              /\ sigPlaced' = sigPlaced + 1
    /\ UNCHANGED <<log, dbOpen, recvErr, recvSig, timerStarted, ctxCancelled,
                   shutdownErr, shutdownCalls, closeCalls>>
    /\ UNCHANGED <<lsVars, serverErrors, notifyOn, srvVars>>
    /\ UNCHANGED hVars

\* main.go 108-109: the runtime delivers SIGINT or SIGTERM to the process.
SignalDelivered(sig) ==
    /\ Alive
    /\ sigDelivered < MaxSignals
    /\ sigDelivered' = sigDelivered + 1
    /\ IF ~notifyOn
         THEN /\ mainPc' = "killed"
              /\ UNCHANGED <<osSignals, sigPlaced>>
         ELSE /\ mainPc' = mainPc
              /\ IF Len(osSignals) < SigChanCap
                   THEN /\ osSignals' = Append(osSignals, sig)
                        /\ sigPlaced' = sigPlaced + 1
                   ELSE UNCHANGED <<osSignals, sigPlaced>>
    /\ UNCHANGED <<log, dbOpen, recvErr, recvSig, timerStarted, ctxCancelled,
                   shutdownErr, shutdownCalls, closeCalls>>
    /\ UNCHANGED <<lsVars, serverErrors, notifyOn, srvVars>>
    /\ UNCHANGED hVars

\* main.go 98-101: the serving listener accepts a request.
RequestArrives ==
    /\ Alive
    /\ lsPc = "serving"
    /\ ~inShutdown
    /\ inflight < MaxInflight
    /\ inflight' = inflight + 1
    /\ UNCHANGED <<mainVars, lsVars, chanVars, sigVars, deadlineFired,
                   inShutdown, sdState, lnErr>>
    /\ UNCHANGED hVars

\* main.go 98-101, 125: a request in flight completes; when it was the last
\* one a waiting Shutdown is complete.
RequestCompletes ==
    /\ Alive
    /\ inflight > 0
    /\ inflight' = inflight - 1
    /\ sdState' = IF sdState = "waiting" /\ inflight' = 0
                  THEN "complete" ELSE sdState
    /\ UNCHANGED <<mainVars, lsVars, chanVars, sigVars, deadlineFired,
                   inShutdown, lnErr>>
    /\ UNCHANGED hVars

\* main.go 121-125: the deadline of ctx elapses; a Shutdown still waiting for
\* requests gives up.
DeadlineFires ==
    /\ Alive
    /\ timerStarted
    /\ ~deadlineFired
    /\ ~ctxCancelled
    /\ deadlineFired' = TRUE
    /\ sdState' = IF sdState = "waiting" THEN "expired" ELSE sdState
    /\ UNCHANGED <<mainVars, lsVars, chanVars, sigVars, inShutdown, lnErr,
                   inflight>>
    /\ UNCHANGED hVars

MainStep ==
    \/ \E o \in {"ok", "parseErr", "configOnly", "configOnlyErr"} : MainConfig(o)
    \/ \E ok \in BOOLEAN : MainConnectDB(ok)
    \/ MainSpawn
    \/ MainNotify
    \/ MainLogStartup
    \/ MainSelectErr
    \/ MainSelectSig
    \/ MainWithTimeout
    \/ MainCallShutdown
    \/ MainShutdownReturn
    \/ \E e \in BOOLEAN : MainClose(e)
    \/ MainLogDone
    \/ MainReturn

Next ==
    \/ MainStep
    \/ \E b \in BOOLEAN : ListenerListen(b)
    \/ ListenerFail
    \/ ListenerSend
    \/ \E s \in Signals : SignalDelivered(s)
    \/ RequestArrives
    \/ RequestCompletes
    \/ DeadlineFires

Spec == Init /\ [][Next]_vars

\* main runs to completion once it is past the select: every statement after
\* the receive is a call that returns (Shutdown returns at the latest when the
\* deadline elapses, and the timer of a started context fires).
FairSpec ==
    /\ Spec
    /\ WF_vars(MainWithTimeout)
    /\ WF_vars(MainCallShutdown)
    /\ WF_vars(MainShutdownReturn)
    /\ WF_vars(\E e \in BOOLEAN : MainClose(e))
    /\ WF_vars(MainLogDone)
    /\ WF_vars(MainReturn)
    /\ WF_vars(DeadlineFires)

\* ------------------------------------------------------ Products handlers
StatusOK == 200
StatusCreated == 201
StatusNoContent == 204
StatusBadRequest == 400
StatusForbidden == 403
StatusNotFound == 404
StatusInternalServerError == 500

\* The sentinel errors of package products.
Sentinels == {"ErrNotFound", "ErrInvalidID", "ErrForbidden"}

\* errors.Wrap / errors.Wrapf: nil stays nil, anything else gets one more
\* context message around it.
Wrap(e, msg) == IF e = NoErr THEN NoErr ELSE [e EXCEPT !.msgs = Append(@, msg)]

\* web.WrapErrorWithStatus: the error annotated with a response status.
WrapErrorWithStatus(e, status) == [e EXCEPT !.status = status]

\* Go's err == products.ErrX in a switch: identity with the bare sentinel.
IsSentinel(e, c) == e = NewErr(c)

\* What a call into package products may return: nil, a sentinel, a sentinel
\* with context wrapped around it, or some other error.
DomainResults ==
    {NoErr} \cup {NewErr(c) : c \in Sentinels \cup {"db"}}
            \cup {Wrap(NewErr(c), "query") : c \in Sentinels}

\* web.Decode fails with an error that carries status 400.
DecodeErr == [cause |-> "decode", msgs |-> << >>, status |-> StatusBadRequest]

\* How a call of web.Respond may end (section 4.1): "ok", or "marshalErr",
\* the serialisation of the value failed and nothing was written.
RespondOutcomes == {"ok", "marshalErr"}

\* A handler that returns err without having called web.Respond.
Fail(calls, err) ==
    [calls |-> calls, err |-> err, writes |-> 0, status |-> 0, noBody |-> FALSE]

\* return web.Respond(ctx, w, value, status); isNil: value is nil.
Respond(calls, isNil, status, ro) ==
    LET cs == Append(calls, "Respond") IN
    IF isNil \/ ro = "ok"
      THEN [calls |-> cs, err |-> NoErr, writes |-> 1, status |-> status,
            noBody |-> isNil]
      ELSE [calls |-> cs, err |-> NewErr("marshal"), writes |-> 0,
            status |-> status, noBody |-> FALSE]

\* part_000 25-32.
List(in) ==
    IF in.dom # NoErr
      THEN Fail(<<"Domain">>, Wrap(in.dom, "getting product list"))
      ELSE Respond(<<"Domain">>, FALSE, StatusOK, in.ro)

\* Variant of Create: a decode failure is reported with a new error that
\* drops the one web.Decode returned.
Create_newDecodeError(in) ==
    IF ~in.decodeOk
      THEN Fail(<<"Decode">>, NewErr("decoding new product"))
    ELSE IF ~in.claimsOk
      THEN Fail(<<"Decode", "Claims">>, NewErr("claims missing from context"))
    ELSE IF in.dom # NoErr
      THEN Fail(<<"Decode", "Claims", "Domain">>,
                Wrap(in.dom, "creating new product"))
    ELSE Respond(<<"Decode", "Claims", "Domain">>, FALSE, StatusCreated, in.ro)

\* part_000 36-53.
Create(in) ==
    IF ~in.decodeOk
      THEN Fail(<<"Decode">>, Wrap(DecodeErr, "decoding new product"))
    ELSE IF ~in.claimsOk
      THEN Fail(<<"Decode", "Claims">>, NewErr("claims missing from context"))
    ELSE IF in.dom # NoErr
      THEN Fail(<<"Decode", "Claims", "Domain">>,
                Wrap(in.dom, "creating new product"))
    ELSE Respond(<<"Decode", "Claims", "Domain">>, FALSE, StatusCreated, in.ro)

\* Variant of Get: the handler writes the error response itself before it
\* returns the error.
Get_writesError(in) ==
    IF in.dom # NoErr
      THEN [Fail(<<"Domain">>, Wrap(in.dom, "getting product"))
               EXCEPT !.writes = 1]
      ELSE Respond(<<"Domain">>, FALSE, StatusOK, in.ro)

\* part_000 56-72.
Get(in) ==
    IF in.dom # NoErr
      THEN Fail(<<"Domain">>,
                IF IsSentinel(in.dom, "ErrNotFound")
                  THEN WrapErrorWithStatus(in.dom, StatusNotFound)
                ELSE IF IsSentinel(in.dom, "ErrInvalidID")
                  THEN WrapErrorWithStatus(in.dom, StatusBadRequest)
                ELSE Wrap(in.dom, "getting product"))
      ELSE Respond(<<"Domain">>, FALSE, StatusOK, in.ro)

\* Variant of Update: missing claims are reported as 403.
Update_claimsForbidden(in) ==
    IF ~in.decodeOk
      THEN Fail(<<"Decode">>, Wrap(DecodeErr, "decoding product update"))
    ELSE IF ~in.claimsOk
      THEN Fail(<<"Decode", "Claims">>,
                WrapErrorWithStatus(NewErr("claims missing from context"),
                                    StatusForbidden))
    ELSE IF in.dom # NoErr
      THEN Fail(<<"Decode", "Claims", "Domain">>,
                IF IsSentinel(in.dom, "ErrNotFound")
                  THEN WrapErrorWithStatus(in.dom, StatusNotFound)
                ELSE IF IsSentinel(in.dom, "ErrInvalidID")
                  THEN WrapErrorWithStatus(in.dom, StatusBadRequest)
                ELSE IF IsSentinel(in.dom, "ErrForbidden")
                  THEN WrapErrorWithStatus(in.dom, StatusForbidden)
                ELSE Wrap(in.dom, "updating product"))
    ELSE Respond(<<"Decode", "Claims", "Domain">>, TRUE, StatusNoContent, in.ro)

\* Variant of Update: the updated product is sent back with status 200.
Update_respondsOK(in) ==
    IF ~in.decodeOk
      THEN Fail(<<"Decode">>, Wrap(DecodeErr, "decoding product update"))
    ELSE IF ~in.claimsOk
      THEN Fail(<<"Decode", "Claims">>, NewErr("claims missing from context"))
    ELSE IF in.dom # NoErr
      THEN Fail(<<"Decode", "Claims", "Domain">>,
                IF IsSentinel(in.dom, "ErrNotFound")
                  THEN WrapErrorWithStatus(in.dom, StatusNotFound)
                ELSE IF IsSentinel(in.dom, "ErrInvalidID")
                  THEN WrapErrorWithStatus(in.dom, StatusBadRequest)
                ELSE IF IsSentinel(in.dom, "ErrForbidden")
                  THEN WrapErrorWithStatus(in.dom, StatusForbidden)
                ELSE Wrap(in.dom, "updating product"))
    ELSE Respond(<<"Decode", "Claims", "Domain">>, FALSE, StatusOK, in.ro)

\* Variant of Update: the claims are looked up before the body is decoded.
Update_claimsFirst(in) ==
    IF ~in.claimsOk
      THEN Fail(<<"Claims">>, NewErr("claims missing from context"))
    ELSE IF ~in.decodeOk
      THEN Fail(<<"Claims", "Decode">>,
                Wrap(DecodeErr, "decoding product update"))
    ELSE IF in.dom # NoErr
      THEN Fail(<<"Claims", "Decode", "Domain">>,
                IF IsSentinel(in.dom, "ErrNotFound")
                  THEN WrapErrorWithStatus(in.dom, StatusNotFound)
                ELSE IF IsSentinel(in.dom, "ErrInvalidID")
                  THEN WrapErrorWithStatus(in.dom, StatusBadRequest)
                ELSE IF IsSentinel(in.dom, "ErrForbidden")
                  THEN WrapErrorWithStatus(in.dom, StatusForbidden)
                ELSE Wrap(in.dom, "updating product"))
    ELSE Respond(<<"Claims", "Decode", "Domain">>, TRUE, StatusNoContent, in.ro)

\* part_000 76-103.
Update(in) ==
    IF ~in.decodeOk
      THEN Fail(<<"Decode">>, Wrap(DecodeErr, "decoding product update"))
    ELSE IF ~in.claimsOk
      THEN Fail(<<"Decode", "Claims">>, NewErr("claims missing from context"))
    ELSE IF in.dom # NoErr
      THEN Fail(<<"Decode", "Claims", "Domain">>,
                IF IsSentinel(in.dom, "ErrNotFound")
                  THEN WrapErrorWithStatus(in.dom, StatusNotFound)
                ELSE IF IsSentinel(in.dom, "ErrInvalidID")
                  THEN WrapErrorWithStatus(in.dom, StatusBadRequest)
                ELSE IF IsSentinel(in.dom, "ErrForbidden")
                  THEN WrapErrorWithStatus(in.dom, StatusForbidden)
                ELSE Wrap(in.dom, "updating product"))
    ELSE Respond(<<"Decode", "Claims", "Domain">>, TRUE, StatusNoContent, in.ro)

\* part_000 106-119.
Delete(in) ==
    IF in.dom # NoErr
      THEN Fail(<<"Domain">>,
                IF IsSentinel(in.dom, "ErrInvalidID")
                  THEN WrapErrorWithStatus(in.dom, StatusBadRequest)
                ELSE Wrap(in.dom, "deleting product"))
      ELSE Respond(<<"Domain">>, TRUE, StatusNoContent, in.ro)

\* part_000 123-137.
AddSale(in) ==
    IF ~in.decodeOk
      THEN Fail(<<"Decode">>, Wrap(DecodeErr, "decoding new sale"))
    ELSE IF in.dom # NoErr
      THEN Fail(<<"Decode", "Domain">>, Wrap(in.dom, "adding new sale"))
    ELSE Respond(<<"Decode", "Domain">>, FALSE, StatusCreated, in.ro)

\* part_000 140-149.
ListSales(in) ==
    IF in.dom # NoErr
      THEN Fail(<<"Domain">>, Wrap(in.dom, "getting sales list"))
      ELSE Respond(<<"Domain">>, FALSE, StatusOK, in.ro)

\* Section 4.3, Classify, first match wins: an error that is one of the
\* sentinels has that sentinel's fixed status ("is" as in the handlers'
\* switch err: the sentinel value itself), an error that carries a status
\* keeps it, anything else is Internal.
Classify(e) ==
    IF IsSentinel(e, "ErrNotFound") THEN StatusNotFound
    ELSE IF IsSentinel(e, "ErrInvalidID") THEN StatusBadRequest
    ELSE IF IsSentinel(e, "ErrForbidden") THEN StatusForbidden
    ELSE IF e.status # 0 THEN e.status
    ELSE StatusInternalServerError

\* The inputs a handler reads: those it never looks at stay at their defaults.
Inputs(decodes, needsClaims) ==
    {in \in [decodeOk : BOOLEAN, claimsOk : BOOLEAN, dom : DomainResults,
             ro : RespondOutcomes] :
        /\ decodes \/ in.decodeOk
        /\ needsClaims \/ in.claimsOk}

\* Handler name, called with inputs in, has run to its return with result r.
Returned(name, in, r) ==
    /\ hPhase' = "returned"
    /\ hName' = name
    /\ hIn' = in
    /\ hCalls' = r.calls
    /\ hErr' = r.err
    /\ hWrites' = r.writes
    /\ hStatus' = r.status
    /\ hNoBody' = r.noBody
    /\ hClass' = 0
    /\ UNCHANGED coordVars

\* part_000 25-32: a request is routed to List.
ServeList ==
    /\ hPhase \in {"idle", "done"}
    /\ \E in \in Inputs(FALSE, FALSE) : Returned("List", in, List(in))

\* part_000 36-53: a request is routed to Create.
ServeCreate ==
    /\ hPhase \in {"idle", "done"}
    /\ \E in \in Inputs(TRUE, TRUE) : Returned("Create", in, Create(in))

\* part_000 56-72: a request is routed to Get.
ServeGet ==
    /\ hPhase \in {"idle", "done"}
    /\ \E in \in Inputs(FALSE, FALSE) : Returned("Get", in, Get(in))

\* part_000 76-103: a request is routed to Update.
ServeUpdate ==
    /\ hPhase \in {"idle", "done"}
    /\ \E in \in Inputs(TRUE, TRUE) : Returned("Update", in, Update(in))

\* part_000 106-119: a request is routed to Delete.
ServeDelete ==
    /\ hPhase \in {"idle", "done"}
    /\ \E in \in Inputs(FALSE, FALSE) : Returned("Delete", in, Delete(in))

\* part_000 123-137: a request is routed to AddSale.
ServeAddSale ==
    /\ hPhase \in {"idle", "done"}
    /\ \E in \in Inputs(TRUE, FALSE) : Returned("AddSale", in, AddSale(in))

\* part_000 140-149: a request is routed to ListSales.
ServeListSales ==
    /\ hPhase \in {"idle", "done"}
    /\ \E in \in Inputs(FALSE, FALSE) : Returned("ListSales", in, ListSales(in))

\* Section 4.4, Handler Adapter: a nil return needs nothing more; a returned
\* error is classified and the error response is written.
Adapter ==
    /\ hPhase = "returned"
    /\ hPhase' = "done"
    /\ IF hErr = NoErr
         THEN UNCHANGED <<hClass, hWrites>>
         ELSE /\ hClass' = Classify(hErr)
              /\ hWrites' = hWrites + 1
    /\ UNCHANGED <<hName, hIn, hCalls, hErr, hStatus, hNoBody>>
    /\ UNCHANGED coordVars

HandlerNext ==
    \/ ServeList
    \/ ServeCreate
    \/ ServeGet
    \/ ServeUpdate
    \/ ServeDelete
    \/ ServeAddSale
    \/ ServeListSales
    \/ Adapter

HandlerSpec == Init /\ [][HandlerNext]_vars

DomainCalled == \E i \in 1..Len(hCalls) : hCalls[i] = "Domain"

\* The handler called web.Respond.
RespondCalled == \E i \in 1..Len(hCalls) : hCalls[i] = "Respond"

\* Section 4.3: the fixed status of each sentinel.
FixedStatus(c) ==
    CASE c = "ErrNotFound" -> StatusNotFound
      [] c = "ErrInvalidID" -> StatusBadRequest
      [] c = "ErrForbidden" -> StatusForbidden

C12_OneResponsePerRequest ==
    /\ hPhase = "returned" /\ hErr = NoErr => hWrites = 1 /\ RespondCalled
    /\ hPhase = "returned" /\ hErr # NoErr => hWrites = 0
    /\ hPhase = "done" => hWrites = 1
    /\ hWrites <= 1

C12_Witness ==
    /\ hPhase = "done"
    /\ RespondCalled
    /\ hErr = NewErr("marshal")
    /\ hClass = StatusInternalServerError
    /\ hWrites = 1

\* The error of errors.New("claims missing from context").
ClaimsMissing == NewErr("claims missing from context")

\* C13 as stated: in Create and Update, whenever the claims are absent from
\* the context the handler returns an error without calling the domain layer
\* and without writing a response, and the error is classified 500.
C13_MissingClaimsIsInternal ==
    hName \in {"Create", "Update"} /\ hPhase # "idle" /\ ~hIn.claimsOk =>
        /\ hErr # NoErr
        /\ ~DomainCalled
        /\ ~RespondCalled
        /\ hPhase = "returned" => hWrites = 0
        /\ hPhase = "done" => hClass = StatusInternalServerError

\* C13 amended: in Create and Update, when the body was decoded and the
\* claims are absent from the context, the handler returns the claims-missing
\* error without calling the domain layer and without writing a response, and
\* the error is classified 500. (When the body does not decode either, the
\* decode error is returned first and is classified 400.)
C13_MissingClaimsAfterDecodeIsInternal ==
    /\ hName \in {"Create", "Update"} /\ hPhase # "idle" /\ ~hIn.claimsOk =>
           /\ hErr # NoErr
           /\ ~DomainCalled
           /\ ~RespondCalled
           /\ hPhase = "returned" => hWrites = 0
    /\ hName \in {"Create", "Update"} /\ hPhase = "done"
          /\ hIn.decodeOk /\ ~hIn.claimsOk =>
           /\ hErr = ClaimsMissing
           /\ hClass = StatusInternalServerError
    /\ hName \in {"Create", "Update"} /\ hPhase = "done"
          /\ ~hIn.decodeOk /\ ~hIn.claimsOk =>
           hClass = StatusBadRequest

C13_Witness ==
    /\ hName = "Update"
    /\ hPhase = "done"
    /\ hIn.decodeOk
    /\ ~hIn.claimsOk
    /\ hErr = ClaimsMissing
    /\ hClass = StatusInternalServerError

\* C14: in Create, Update and AddSale a failure of web.Decode makes the handler
\* return the decode error with one context message wrapped around it, and
\* that error is classified 400.
C14_DecodeFailureIs400 ==
    hName \in {"Create", "Update", "AddSale"} /\ hPhase = "done"
      /\ ~hIn.decodeOk =>
        /\ hErr.cause = "decode"
        /\ Len(hErr.msgs) = 1
        /\ hClass = StatusBadRequest

C14_Witness ==
    /\ hName = "AddSale"
    /\ hPhase = "done"
    /\ ~hIn.decodeOk
    /\ hCalls = <<"Decode">>
    /\ hClass = StatusBadRequest

\* Section 6: the success status of each kind of handler.
SuccessStatus(name) ==
    IF name \in {"List", "Get", "ListSales"} THEN StatusOK
    ELSE IF name \in {"Create", "AddSale"} THEN StatusCreated
    ELSE StatusNoContent

\* C15: whenever a handler calls web.Respond it passes the status fixed for
\* its kind (200 reads, 201 creates, 204 Update and Delete), and it passes a
\* nil value exactly when that status is 204.
C15_SuccessStatusPerHandler ==
    hPhase # "idle" /\ RespondCalled =>
        /\ hStatus = SuccessStatus(hName)
        /\ hNoBody <=> hStatus = StatusNoContent
        /\ hNoBody => hErr = NoErr

C15_Witness ==
    /\ hName = "Update"
    /\ hPhase = "done"
    /\ hErr = NoErr
    /\ hStatus = StatusNoContent
    /\ hNoBody
    /\ hWrites = 1

\* C19: in Create and Update the domain layer is called only after web.Decode
\* succeeded and then the claims were found, in that order; when either fails
\* the domain layer is not called; when both fail the decode error is the one
\* returned and the claims are not even looked up.
C19_DomainAfterDecodeAndClaims ==
    hName \in {"Create", "Update"} /\ hPhase # "idle" =>
        /\ DomainCalled =>
               /\ hIn.decodeOk /\ hIn.claimsOk
               /\ Len(hCalls) >= 3
               /\ hCalls[1] = "Decode" /\ hCalls[2] = "Claims"
               /\ hCalls[3] = "Domain"
        /\ ~hIn.decodeOk \/ ~hIn.claimsOk => ~DomainCalled /\ hErr # NoErr
        /\ ~hIn.decodeOk /\ ~hIn.claimsOk =>
               hErr.cause = "decode" /\ hCalls = <<"Decode">>
        /\ hIn.decodeOk /\ hIn.claimsOk => DomainCalled

C19_Witness ==
    /\ hName = "Update"
    /\ hPhase = "done"
    /\ ~hIn.decodeOk
    /\ ~hIn.claimsOk
    /\ hErr.cause = "decode"

\* ------------------------------------------------- shutdown coordinator
StartupLogged == \E i \in 1..Len(log) : log[i] = "startup complete"
DoneLogged == \E i \in 1..Len(log) : log[i] = "done"

\* The states of section 4.5 as positions of main.
StartingPcs == {"config", "connect", "spawn", "notify", "logStartup"}
ServingPcs == {"select"}
DrainingPcs == {"withTimeout", "callShutdown", "inShutdown"}
ClosingPcs == {"callClose"}
AfterIfPcs == {"logDone", "return", "exited"}

\* Stopped: "done" was logged last and main has returned.
Stopped == mainPc = "exited" /\ Len(log) > 0 /\ Last(log) = "done"

\* A signal was consumed and server.Shutdown returned nil.
GracefulNil == recvSig = 1 /\ shutdownErr = "nil"

\* The deadline elapsed while server.Shutdown had not completed.
GraceExpired == recvSig = 1 /\ sdState = "expired"

\* C1: once a termination signal was consumed and server.Shutdown returned
\* nil, server.Close is never invoked and main goes on to log "done" and
\* return (Stopped).
C1_GracefulStopsWithoutClose ==
    /\ [](GracefulNil => closeCalls = 0 /\ mainPc \in AfterIfPcs)
    /\ (GracefulNil ~> Stopped)

C1_Witness ==
    /\ GracefulNil
    /\ Stopped
    /\ served
    /\ ~deadlineFired
    /\ closeCalls = 0

\* C2: when a termination signal was consumed and the grace deadline elapsed
\* before server.Shutdown completed, server.Close is invoked exactly once:
\* it is eventually invoked, it has been invoked once main is past the if
\* block, and it is never invoked a second time.
C2_ForcedCloseExactlyOnce ==
    /\ [](closeCalls <= 1)
    /\ [](GraceExpired /\ mainPc \in AfterIfPcs => closeCalls = 1)
    /\ (GraceExpired ~> closeCalls = 1)

C2_Witness ==
    /\ GraceExpired
    /\ shutdownErr = "DeadlineExceeded"
    /\ inflight = 0
    /\ closeCalls = 1
    /\ mainPc = "exited"

\* C3: once main has received from serverErrors the process has exited through
\* log.Fatalf: Shutdown and Close were not called, no grace context was
\* created, and main is in none of the Draining or Closing positions.
C3_ListenerErrorExitsImmediately ==
    recvErr >= 1 =>
        /\ mainPc = "fatal"
        /\ Last(log) = "error: listening and serving"
        /\ shutdownCalls = 0
        /\ closeCalls = 0
        /\ ~timerStarted
        /\ ~deadlineFired
        /\ ~inShutdown
        /\ sdState = "none"

C3_Witness ==
    /\ recvErr = 1
    /\ mainPc = "fatal"
    /\ Len(osSignals) = 1

\* C4: main receives at most once in total from serverErrors and osSignals:
\* nothing before it leaves the select, exactly one value from exactly one of
\* the two channels once it has left it, whatever is pending in the other
\* channel or arrives there later.
C4_ExactlyOneTrigger ==
    /\ recvErr + recvSig <= 1
    /\ mainPc \in StartingPcs \cup ServingPcs => recvErr + recvSig = 0
    /\ mainPc \in DrainingPcs \cup ClosingPcs \cup {"logDone", "return"} =>
           recvSig = 1 /\ recvErr = 0
    /\ mainPc \in {"exited", "fatal"} /\ StartupLogged => recvErr + recvSig = 1

C4_Witness ==
    /\ mainPc = "exited"
    /\ recvSig = 1
    /\ recvErr = 0
    /\ Len(serverErrors) = 1
    /\ Len(osSignals) = 1

\* C5: the grace context exists, and its deadline fires, only after main has
\* received a termination signal: never while main is Starting or Serving.
C5_GraceStartsAfterSignal ==
    (timerStarted \/ deadlineFired) =>
        /\ recvSig = 1
        /\ timerStarted
        /\ mainPc \notin StartingPcs \cup ServingPcs

C5_Witness ==
    /\ deadlineFired
    /\ recvSig = 1
    /\ mainPc = "inShutdown"

\* C6: first signal wins. Main receives from osSignals at most once and calls
\* server.Shutdown at most once; a signal delivered after the first one was
\* consumed changes nothing but the contents of osSignals; Shutdown reports
\* the deadline only when the deadline elapsed, and server.Close is invoked
\* exactly when Shutdown returned an error.
C6_FirstSignalWins ==
    /\ [](recvSig <= 1 /\ shutdownCalls <= 1)
    /\ [](shutdownErr = "DeadlineExceeded" => deadlineFired)
    /\ [](mainPc \in AfterIfPcs /\ recvSig = 1 =>
             (closeCalls = 1 <=> shutdownErr # "nil"))
    /\ [][recvSig = 1 /\ sigDelivered' # sigDelivered =>
             UNCHANGED <<mainVars, lsVars, serverErrors, notifyOn, srvVars>>]_vars

C6_Witness ==
    /\ mainPc = "exited"
    /\ recvSig = 1
    /\ sigPlaced = 2
    /\ Len(osSignals) = 1
    /\ shutdownCalls = 1

\* C7 as stated: whenever the process has exited after "startup complete" was
\* logged, "done" is the last message logged.
C7_DoneOnEveryExit ==
    ~Alive /\ StartupLogged => Last(log) = "done"

\* C7 amended: when main returns after a termination signal "done" is the
\* last message logged; when the process exits on a listener error the last
\* message is the fatal one and "done" is not logged.
C7_DoneOnSignalExit ==
    /\ mainPc = "exited" /\ StartupLogged => recvSig = 1 /\ Last(log) = "done"
    /\ mainPc = "fatal" /\ StartupLogged =>
           /\ recvErr = 1
           /\ Last(log) = "error: listening and serving"
           /\ ~DoneLogged

C7_Witness ==
    /\ mainPc = "exited"
    /\ StartupLogged
    /\ closeCalls = 1
    /\ Last(log) = "done"

\* C8: "startup complete" is logged only when the listener has started
\* serving, and never when the listener failed to bind.
C8_StartupLoggedOnlyWhenServing ==
    StartupLogged => served /\ lsErr # "bindErr"

\* C9 as stated: the listener goroutine sends on serverErrors at most once and
\* at most one value is ever placed into osSignals.
C9_EachChannelWrittenOnce ==
    errSends <= 1 /\ sigPlaced <= 1

\* C9 amended: the listener goroutine sends on serverErrors at most once;
\* osSignals never holds more than one value, at most one value is placed in
\* it before main consumes the first one, and at most one more afterwards.
C9_OneSendOnePendingSignal ==
    /\ errSends <= 1
    /\ Len(serverErrors) <= 1
    /\ Len(osSignals) <= 1
    /\ sigPlaced <= recvSig + 1
    /\ sigPlaced = recvSig + Len(osSignals)

C9_Witness ==
    /\ errSends = 1
    /\ sigPlaced = 2
    /\ sigDelivered = 3
    /\ recvSig = 1

\* server.Close returned an error (main.go 128 logged it).
CloseFailed == \E i \in 1..Len(log) : log[i] = "error: closing server"

\* C16: server.Close is invoked exactly when server.Shutdown has returned a
\* non-nil error (the deadline's or the listeners'): never before Shutdown is
\* called or while it is running, never after a nil return, always once main
\* is past the if block after a non-nil return; and an error returned by
\* Close is followed by "done" and main's return.
C16_CloseIffShutdownFailed ==
    /\ [](mainPc \in StartingPcs \cup ServingPcs \cup DrainingPcs =>
             closeCalls = 0)
    /\ [](mainPc = "callClose" =>
             shutdownErr \in {"DeadlineExceeded", "lnCloseErr"} /\ closeCalls = 0)
    /\ [](closeCalls >= 1 =>
             /\ closeCalls = 1
             /\ shutdownCalls = 1
             /\ shutdownErr \in {"DeadlineExceeded", "lnCloseErr"}
             /\ mainPc \in AfterIfPcs)
    /\ [](mainPc \in AfterIfPcs /\ shutdownErr \in {"DeadlineExceeded", "lnCloseErr"} =>
             closeCalls = 1)
    /\ (CloseFailed ~> Stopped)

C16_Witness ==
    /\ Stopped
    /\ CloseFailed
    /\ shutdownErr = "lnCloseErr"
    /\ ~deadlineFired
    /\ closeCalls = 1

\* C17: once main has consumed a termination signal it eventually logs "done"
\* and returns, whether the requests in flight finish, hang past the deadline,
\* or Shutdown and Close return errors.
C17_SignalLeadsToStopped == (recvSig = 1) ~> Stopped

C17_Witness ==
    /\ Stopped
    /\ recvSig = 1
    /\ sdState = "expired"
    /\ shutdownErr = "DeadlineExceeded"
    /\ CloseFailed

\* C18: the goroutine's send on serverErrors never blocks: whenever
\* ListenAndServe has returned and the process is running, the channel has
\* room and the send can be taken; the goroutine sends once and ends, also
\* when main took the signal branch and never receives the value.
C18_ListenerSendNeverBlocks ==
    /\ lsPc = "returned" => Len(serverErrors) < ErrChanCap /\ errSends = 0
    /\ Alive /\ lsPc = "returned" => ENABLED ListenerSend
    /\ lsPc = "done" => errSends = 1
    /\ errSends <= 1

C18_Witness ==
    /\ lsPc = "done"
    /\ lsErr = "ErrServerClosed"
    /\ recvSig = 1
    /\ recvErr = 0
    /\ Len(serverErrors) = 1
    /\ mainPc = "exited"

TypeOK ==
    /\ Len(serverErrors) <= ErrChanCap
    /\ Len(osSignals) <= SigChanCap
    /\ inflight \in 0..MaxInflight
====
